---------------------------- MODULE Spec2Model ----------------------------
(***************************************************************************)
(* Model of src/core.py: immutable Item / User / Offer values and the      *)
(* Offer lifecycle (accept / decline).                                     *)
(*                                                                         *)
(* Spec      : a caller constructs one Offer and then chains accept() and  *)
(*             decline() calls, each applied to the Offer returned by the  *)
(*             previous call.                                              *)
(* SpecReverse : as Spec, and after a successful accept() the caller may   *)
(*             construct the reverse Offer from the two returned users.    *)
(* SpecUser  : a caller constructs one User and calls the four             *)
(*             with_item(s)_added / with_item(s)_removed methods on it.    *)
(***************************************************************************)
EXTENDS Naturals, FiniteSets, Sequences

VARIABLES
    origin,     \* the Offer as it was constructed by the caller
    before,     \* the Offer the last accept()/decline() was called on (self)
    offer,      \* the Offer the caller holds now (returned by the last call)
    ret_a,      \* second element of the tuple returned by the last accept()
    ret_b,      \* third element of the tuple returned by the last accept()
    call,       \* the last method called on the Offer: "new", "accept", "decline"
    transfers,  \* number of calls so far that changed the Offer's user_a or user_b
    forward,    \* <<o>>: the Offer now held reverses the accepted Offer o; else <<>>
    self_pre,   \* the receiver User as it was when the last User method was entered
    self,       \* the receiver User after the last User method returned
    arg,        \* the argument of the last User method (an Item or a set of Items)
    result,     \* the User returned by the last User method
    method      \* the last User method called: "new", "with_item_added", ...

vars == <<origin, before, offer, ret_a, ret_b, call, transfers, forward,
          self_pre, self, arg, result, method>>
offerVars == <<origin, before, offer, ret_a, ret_b, call, transfers, forward>>
userVars == <<self_pre, self, arg, result, method>>

---------------------------------------------------------------------------
\* Bounds of the model.

\* Number of distinct item names the caller draws from.
MaxNames == 2

---------------------------------------------------------------------------
\* Value types.

\* OfferStatus = Enum('OfferStatus', 'PENDING ACCEPTED DECLINED')
PENDING == "PENDING"
ACCEPTED == "ACCEPTED"
DECLINED == "DECLINED"
OfferStatus == {PENDING, ACCEPTED, DECLINED}

\* Item(name, description=""): a frozen dataclass, equal iff both fields are.
Item(name, description) == [name |-> name, description |-> description]

\* User(username, items=frozenset()): a frozen dataclass.
User(username, items) == [username |-> username, items |-> items]

\* Offer(user_a, user_b, offered_items, requested_items, status=PENDING).
Offer(user_a, user_b, offered_items, requested_items, status) ==
    [user_a |-> user_a, user_b |-> user_b,
     offered_items |-> offered_items, requested_items |-> requested_items,
     status |-> status]

\* The names the demonstration script uses, in the order it builds them.
ItemNames == <<"Book", "Pen", "Guitar", "Lamp", "Mug">>

\* The Items a caller builds: one Item per name with the default description,
\* and one more that shares the first name but carries a description (equal
\* names, unequal Items).
Items ==
    {Item(ItemNames[i], "") : i \in 1..MaxNames}
        \cup {Item(ItemNames[1], "A mystery novel")}

Usernames == {"alice", "bob"}

---------------------------------------------------------------------------
\* frozenset operations used by the code.

union(s, t) == s \cup t
difference(s, t) == s \ t
issubset(s, t) == s \subseteq t

---------------------------------------------------------------------------
\* User methods (pure: each returns a new User built by dataclasses.replace).

with_item_added(u, item) == [u EXCEPT !.items = union(u.items, {item})]

\* Mutant: the new item set replaces the old one instead of extending it.
with_items_added_replacing(u, items) == [u EXCEPT !.items = items]

with_items_added(u, items) == [u EXCEPT !.items = union(u.items, items)]

\* Mutant: symmetric difference (toggles the item) instead of difference.
with_item_removed_toggling(u, item) ==
    [u EXCEPT !.items = (u.items \ {item}) \cup ({item} \ u.items)]

with_item_removed(u, item) == [u EXCEPT !.items = difference(u.items, {item})]

\* Mutant: intersection (keeps exactly the named items) instead of difference.
with_items_removed_intersecting(u, items) ==
    [u EXCEPT !.items = u.items \cap items]

with_items_removed(u, items) == [u EXCEPT !.items = difference(u.items, items)]

---------------------------------------------------------------------------
\* Offer methods.

\* The trade of accept() once its guards have passed, with the two updated
\* users given: (updated_offer, updated_user_a, updated_user_b).
\* Used by the mutants below only.
traded(o, ua, ub) ==
    <<[o EXCEPT !.status = ACCEPTED, !.user_a = ua, !.user_b = ub], ua, ub>>

swapped_a(o) ==
    with_items_added(with_items_removed(o.user_a, o.offered_items), o.requested_items)

swapped_b(o) ==
    with_items_added(with_items_removed(o.user_b, o.requested_items), o.offered_items)

\* Mutant: the status guard is missing.
accept_without_status_guard(o) ==
    IF ~ issubset(o.offered_items, o.user_a.items)
          \/ ~ issubset(o.requested_items, o.user_b.items)
    THEN <<o, o.user_a, o.user_b>>
    ELSE traded(o, swapped_a(o), swapped_b(o))

\* Mutant: the ownership check of user_b is missing.
accept_without_b_check(o) ==
    IF o.status # PENDING \/ ~ issubset(o.offered_items, o.user_a.items)
    THEN <<o, o.user_a, o.user_b>>
    ELSE traded(o, swapped_a(o), swapped_b(o))

\* Mutant: each set is checked against the other party's items.
accept_checking_wrong_party(o) ==
    IF o.status # PENDING
          \/ ~ issubset(o.offered_items, o.user_b.items)
          \/ ~ issubset(o.requested_items, o.user_a.items)
    THEN <<o, o.user_a, o.user_b>>
    ELSE traded(o, swapped_a(o), swapped_b(o))

\* Mutant: user_b receives the offered items but keeps the requested ones.
accept_b_keeps_requested(o) ==
    IF o.status # PENDING
          \/ ~ issubset(o.offered_items, o.user_a.items)
          \/ ~ issubset(o.requested_items, o.user_b.items)
    THEN <<o, o.user_a, o.user_b>>
    ELSE traded(o, swapped_a(o), with_items_added(o.user_b, o.offered_items))

\* Mutant: user_a gets the requested items added before the offered ones are
\* removed.
accept_adding_before_removing(o) ==
    IF o.status # PENDING
          \/ ~ issubset(o.offered_items, o.user_a.items)
          \/ ~ issubset(o.requested_items, o.user_b.items)
    THEN <<o, o.user_a, o.user_b>>
    ELSE traded(o,
                with_items_removed(with_items_added(o.user_a, o.requested_items),
                                   o.offered_items),
                swapped_b(o))

\* Mutant: the updated Offer is built without the updated user_b.
accept_with_stale_user_b(o) ==
    IF o.status # PENDING
          \/ ~ issubset(o.offered_items, o.user_a.items)
          \/ ~ issubset(o.requested_items, o.user_b.items)
    THEN <<o, o.user_a, o.user_b>>
    ELSE <<[o EXCEPT !.status = ACCEPTED, !.user_a = swapped_a(o)],
           swapped_a(o), swapped_b(o)>>

\* Mutant: the status guard stops ACCEPTED Offers only, so a DECLINED Offer
\* can still be accepted.
accept_guarding_accepted_only(o) ==
    IF o.status = ACCEPTED
          \/ ~ issubset(o.offered_items, o.user_a.items)
          \/ ~ issubset(o.requested_items, o.user_b.items)
    THEN <<o, o.user_a, o.user_b>>
    ELSE traded(o, swapped_a(o), swapped_b(o))

\* Mutant: the Offer is refused only when both ownership checks fail.
accept_requiring_both_failures(o) ==
    IF o.status # PENDING
          \/ (~ issubset(o.offered_items, o.user_a.items)
                /\ ~ issubset(o.requested_items, o.user_b.items))
    THEN <<o, o.user_a, o.user_b>>
    ELSE traded(o, swapped_a(o), swapped_b(o))

\* Mutant: user_a receives the requested items but keeps the offered ones.
accept_a_keeps_offered(o) ==
    IF o.status # PENDING
          \/ ~ issubset(o.offered_items, o.user_a.items)
          \/ ~ issubset(o.requested_items, o.user_b.items)
    THEN <<o, o.user_a, o.user_b>>
    ELSE traded(o, with_items_added(o.user_a, o.requested_items), swapped_b(o))

\* Mutant: user_b gives the requested items but never receives the offered
\* ones.
accept_b_not_receiving(o) ==
    IF o.status # PENDING
          \/ ~ issubset(o.offered_items, o.user_a.items)
          \/ ~ issubset(o.requested_items, o.user_b.items)
    THEN <<o, o.user_a, o.user_b>>
    ELSE traded(o, swapped_a(o), with_items_removed(o.user_b, o.requested_items))

\* Offer.accept: returns the tuple (Offer, User, User).
accept(o) ==
    IF o.status # PENDING
    THEN <<o, o.user_a, o.user_b>>
    ELSE IF ~ issubset(o.offered_items, o.user_a.items)
    THEN <<o, o.user_a, o.user_b>>
    ELSE IF ~ issubset(o.requested_items, o.user_b.items)
    THEN <<o, o.user_a, o.user_b>>
    ELSE
        LET updated_user_a ==
                with_items_added(with_items_removed(o.user_a, o.offered_items),
                                 o.requested_items)
            updated_user_b ==
                with_items_added(with_items_removed(o.user_b, o.requested_items),
                                 o.offered_items)
            updated_offer ==
                [o EXCEPT !.status = ACCEPTED,
                          !.user_a = updated_user_a,
                          !.user_b = updated_user_b]
        IN  <<updated_offer, updated_user_a, updated_user_b>>

\* Mutant: the status guard is missing.
decline_without_status_guard(o) == [o EXCEPT !.status = DECLINED]

\* Mutant: the status guard is inverted.
decline_with_inverted_guard(o) ==
    IF o.status # PENDING
    THEN [o EXCEPT !.status = DECLINED]
    ELSE o

\* Offer.decline: returns an Offer.
decline(o) ==
    IF o.status = PENDING
    THEN [o EXCEPT !.status = DECLINED]
    ELSE o

---------------------------------------------------------------------------
\* The caller of the Offer API.

\* An Offer is constructed from any two Users, any two item sets and any
\* status (the constructor validates nothing).
InitOffer ==
    /\ \E ia \in SUBSET Items, ib \in SUBSET Items,
          offered \in SUBSET Items, requested \in SUBSET Items,
          st \in OfferStatus :
            origin = Offer(User("alice", ia), User("bob", ib), offered, requested, st)
    /\ before = origin
    /\ offer = origin
    /\ ret_a = origin.user_a
    /\ ret_b = origin.user_b
    /\ call = "new"
    /\ transfers = 0
    /\ forward = <<>>

\* Whether the Offer returned by a call embeds other users than the Offer
\* the call was made on.
users_changed(o, returned) ==
    returned.user_a # o.user_a \/ returned.user_b # o.user_b

\* updated_offer, updated_alice, updated_bob = offer.accept()
Accept ==
    /\ before' = offer
    /\ offer' = accept(offer)[1]
    /\ ret_a' = accept(offer)[2]
    /\ ret_b' = accept(offer)[3]
    /\ call' = "accept"
    /\ transfers' = IF users_changed(offer, accept(offer)[1])
                    THEN transfers + 1 ELSE transfers
    /\ UNCHANGED <<origin, forward>>

\* offer = offer.decline()
Decline ==
    /\ before' = offer
    /\ offer' = decline(offer)
    /\ call' = "decline"
    /\ transfers' = IF users_changed(offer, decline(offer))
                    THEN transfers + 1 ELSE transfers
    /\ UNCHANGED <<origin, ret_a, ret_b, forward>>

\* After a successful accept(), the caller constructs the reverse Offer: PENDING,
\* between the two returned users, with offered_items and requested_items
\* exchanged.  One reversal per run.
Reverse ==
    /\ call = "accept"
    /\ before.status = PENDING
    /\ offer.status = ACCEPTED
    /\ forward = <<>>
    /\ origin' = Offer(ret_a, ret_b, offer.requested_items, offer.offered_items,
                       PENDING)
    /\ before' = origin'
    /\ offer' = origin'
    /\ call' = "new"
    /\ transfers' = 0
    /\ forward' = <<before>>
    /\ UNCHANGED <<ret_a, ret_b>>

\* No User method is called in the Offer scenario.
IdleUser ==
    /\ self_pre = User("alice", {})
    /\ self = self_pre
    /\ arg = {}
    /\ result = self_pre
    /\ method = "new"

Init == InitOffer /\ IdleUser

Next ==
    \/ Accept /\ UNCHANGED userVars
    \/ Decline /\ UNCHANGED userVars

Spec == Init /\ [][Next]_vars

NextReverse ==
    \/ Accept /\ UNCHANGED userVars
    \/ Decline /\ UNCHANGED userVars
    \/ Reverse /\ UNCHANGED userVars

SpecReverse == Init /\ [][NextReverse]_vars

---------------------------------------------------------------------------
\* The caller of the User API.

InitUser ==
    /\ \E name \in Usernames, items \in SUBSET Items :
            self_pre = User(name, items)
    /\ self = self_pre
    /\ arg = {}
    /\ result = self_pre
    /\ method = "new"

\* result = self.with_item_added(item)
WithItemAdded ==
    \E item \in Items :
        /\ self_pre' = self
        /\ arg' = item
        /\ result' = with_item_added(self, item)
        /\ method' = "with_item_added"
        /\ UNCHANGED self

\* result = self.with_items_added(items)
WithItemsAdded ==
    \E items \in SUBSET Items :
        /\ self_pre' = self
        /\ arg' = items
        /\ result' = with_items_added(self, items)
        /\ method' = "with_items_added"
        /\ UNCHANGED self

\* result = self.with_item_removed(item)
WithItemRemoved ==
    \E item \in Items :
        /\ self_pre' = self
        /\ arg' = item
        /\ result' = with_item_removed(self, item)
        /\ method' = "with_item_removed"
        /\ UNCHANGED self

\* result = self.with_items_removed(items)
WithItemsRemoved ==
    \E items \in SUBSET Items :
        /\ self_pre' = self
        /\ arg' = items
        /\ result' = with_items_removed(self, items)
        /\ method' = "with_items_removed"
        /\ UNCHANGED self

\* No Offer is built in the User scenario beyond an empty pending one.
IdleOffer ==
    /\ origin = Offer(User("alice", {}), User("bob", {}), {}, {}, PENDING)
    /\ before = origin
    /\ offer = origin
    /\ ret_a = origin.user_a
    /\ ret_b = origin.user_b
    /\ call = "new"
    /\ transfers = 0
    /\ forward = <<>>

UserInit == InitUser /\ IdleOffer

UserNext ==
    \/ WithItemAdded /\ UNCHANGED offerVars
    \/ WithItemsAdded /\ UNCHANGED offerVars
    \/ WithItemRemoved /\ UNCHANGED offerVars
    \/ WithItemsRemoved /\ UNCHANGED offerVars

SpecUser == UserInit /\ [][UserNext]_vars

---------------------------------------------------------------------------
\* Properties.

\* The ownership precondition of a trade, stated on an Offer value.
Owned(o) ==
    /\ o.offered_items \subseteq o.user_a.items
    /\ o.requested_items \subseteq o.user_b.items

\* C1: along any chain of accept() and decline() calls, a step that changes
\* the status leaves PENDING and enters ACCEPTED or DECLINED; a status of
\* ACCEPTED or DECLINED is never changed by a later call.
C1_StatusTransitions ==
    [][offer'.status # offer.status
          => /\ offer.status = PENDING
             /\ offer'.status \in {ACCEPTED, DECLINED}]_vars

\* A constructed-PENDING Offer was accepted and then decline() was called on
\* the ACCEPTED Offer.
C1_Witness ==
    /\ origin.status = PENDING
    /\ before.status = ACCEPTED
    /\ call = "decline"

\* C2: accept() on a PENDING Offer with valid ownership returns status
\* ACCEPTED, user_a's items = (user_a.items - offered) + requested and
\* user_b's items = (user_b.items - requested) + offered.
C2_AtomicSwap ==
    (call = "accept" /\ before.status = PENDING /\ Owned(before))
        => /\ offer.status = ACCEPTED
           /\ ret_a.items =
                (before.user_a.items \ before.offered_items)
                    \cup before.requested_items
           /\ ret_b.items =
                (before.user_b.items \ before.requested_items)
                    \cup before.offered_items

\* A trade that moves items in both directions, with user_b keeping an item.
C2_Witness ==
    /\ call = "accept" /\ before.status = PENDING /\ Owned(before)
    /\ before.offered_items # {}
    /\ before.requested_items # {}
    /\ before.offered_items # before.requested_items
    /\ before.user_b.items # before.requested_items
    /\ ret_a.items # before.user_a.items

\* C3: accept() on a PENDING Offer whose ownership check fails returns the
\* original Offer (still PENDING) and the original user_a and user_b.
C3_OwnershipPrecondition ==
    (call = "accept" /\ before.status = PENDING /\ ~ Owned(before))
        => /\ offer = before
           /\ offer.status = PENDING
           /\ ret_a = before.user_a
           /\ ret_b = before.user_b
           /\ ret_a.items = before.user_a.items
           /\ ret_b.items = before.user_b.items

\* accept() was refused because user_b lacks a requested item, although
\* user_a owns everything offered.
C3_Witness ==
    /\ call = "accept" /\ before.status = PENDING
    /\ before.offered_items # {}
    /\ before.offered_items \subseteq before.user_a.items
    /\ ~ (before.requested_items \subseteq before.user_b.items)

\* C4: accept() on an ACCEPTED or DECLINED Offer returns
\* (offer, offer.user_a, offer.user_b) whatever the ownership checks would
\* say; and after any accept(), a second accept() on the returned Offer
\* returns the same tuple again.
C4_AcceptTerminalNoOp ==
    /\ (call = "accept" /\ before.status # PENDING)
          => <<offer, ret_a, ret_b>> = <<before, before.user_a, before.user_b>>
    /\ call = "accept"
          => accept(offer) = <<offer, ret_a, ret_b>>

\* accept() was called on a terminal Offer whose ownership checks pass and
\* whose trade would have moved items.
C4_Witness ==
    /\ call = "accept" /\ before.status \in {ACCEPTED, DECLINED}
    /\ Owned(before)
    /\ before.offered_items # before.requested_items

\* C5: decline() on a PENDING Offer returns status DECLINED with user_a,
\* user_b, offered_items and requested_items as before; decline() on an
\* ACCEPTED or DECLINED Offer returns the Offer unchanged.
C5_Decline ==
    /\ (call = "decline" /\ before.status = PENDING)
          => /\ offer.status = DECLINED
             /\ offer.user_a = before.user_a
             /\ offer.user_b = before.user_b
             /\ offer.offered_items = before.offered_items
             /\ offer.requested_items = before.requested_items
    /\ (call = "decline" /\ before.status # PENDING)
          => offer = before

\* decline() was called on a PENDING Offer that accept() would have traded.
C5_Witness ==
    /\ call = "decline" /\ before.status = PENDING
    /\ Owned(before)
    /\ before.offered_items # before.requested_items

\* The two outcomes of accept(), on the recorded call.
FullSwap ==
    /\ before.status = PENDING
    /\ offer.status = ACCEPTED
    /\ ret_a.username = before.user_a.username
    /\ ret_b.username = before.user_b.username
    /\ ret_a.items =
         (before.user_a.items \ before.offered_items) \cup before.requested_items
    /\ ret_b.items =
         (before.user_b.items \ before.requested_items) \cup before.offered_items

NoSwap ==
    /\ offer = before
    /\ ret_a = before.user_a
    /\ ret_b = before.user_b

\* C6: every accept() ends in exactly one of the full swap and no swap at
\* all; the returned Offer embeds the two returned users and keeps the
\* input's offered_items and requested_items.
C6_AllOrNothing ==
    call = "accept"
        => /\ (FullSwap \/ NoSwap)
           /\ ~ (FullSwap /\ NoSwap)
           /\ offer.user_a = ret_a
           /\ offer.user_b = ret_b
           /\ offer.offered_items = before.offered_items
           /\ offer.requested_items = before.requested_items

\* A full swap in which both users' item sets changed.
C6_Witness ==
    /\ call = "accept" /\ FullSwap
    /\ ret_a.items # before.user_a.items
    /\ ret_b.items # before.user_b.items

\* C7: an Item both offered and requested is still in user_a.items after a
\* successful accept().
C7_OverlapStays ==
    (call = "accept" /\ before.status = PENDING /\ Owned(before))
        => \A x \in before.offered_items \cap before.requested_items :
              /\ x \in ret_a.items
              /\ x \in offer.user_a.items

\* A successful accept() of an Offer with a shared Item and a non-shared
\* offered Item.
C7_Witness ==
    /\ call = "accept" /\ before.status = PENDING /\ Owned(before)
    /\ offer.status = ACCEPTED
    /\ before.offered_items \cap before.requested_items # {}
    /\ before.offered_items \ before.requested_items # {}

\* C10: accept() on a PENDING Offer returns ACCEPTED iff both ownership
\* checks pass; a PENDING Offer with both item sets empty is accepted and
\* both users' item sets are unchanged.
C10_StatusTellsOutcome ==
    /\ (call = "accept" /\ before.status = PENDING)
          => (offer.status = ACCEPTED <=> Owned(before))
    /\ (call = "accept" /\ before.status = PENDING
            /\ before.offered_items = {} /\ before.requested_items = {})
          => /\ offer.status = ACCEPTED
             /\ ret_a.items = before.user_a.items
             /\ ret_b.items = before.user_b.items
             /\ offer.user_a.items = before.user_a.items
             /\ offer.user_b.items = before.user_b.items

\* The empty PENDING Offer between two users who hold items was accepted.
C10_Witness ==
    /\ call = "accept" /\ before.status = PENDING
    /\ before.offered_items = {} /\ before.requested_items = {}
    /\ before.user_a.items # {} /\ before.user_b.items # {}
    /\ offer.status = ACCEPTED

\* C8: with_item_removed of an Item the User does not hold, and
\* with_item_added of an Item the User already holds, return a User equal
\* to the receiver.
C8_AbsentRemovePresentAdd ==
    /\ (method = "with_item_removed" /\ arg \notin self_pre.items)
          => result = self_pre
    /\ (method = "with_item_added" /\ arg \in self_pre.items)
          => result = self_pre

\* An absent Item was removed from a User who holds other Items.
C8_Witness ==
    /\ method = "with_item_removed"
    /\ arg \notin self_pre.items
    /\ self_pre.items # {}

\* C9: with_items_added returns the union, with_items_removed the
\* difference; the username is kept and the receiver is as it was.
C9_UnionAndDifference ==
    /\ method = "with_items_added"
          => /\ result.items = self_pre.items \cup arg
             /\ result.username = self_pre.username
             /\ self = self_pre
    /\ method = "with_items_removed"
          => /\ result.items = self_pre.items \ arg
             /\ result.username = self_pre.username
             /\ self = self_pre

\* Items were added to a User, some already held and some new, and the
\* User keeps an Item the argument does not name.
C9_Witness ==
    /\ method = "with_items_added"
    /\ arg \cap self_pre.items # {}
    /\ arg \ self_pre.items # {}
    /\ self_pre.items \ arg # {}

\* C11: along a chain of accept() and decline() calls on one Offer, the
\* Offer's user_a / user_b change in at most one call, and a call that
\* changes them is an accept() taking the status from PENDING to ACCEPTED;
\* accept() on a DECLINED or ACCEPTED Offer leaves both users as they were.
C11_SingleTransfer ==
    /\ [](transfers <= 1)
    /\ []((call = "accept" /\ before.status \in {DECLINED, ACCEPTED})
              => /\ offer.user_a = before.user_a
                 /\ offer.user_b = before.user_b
                 /\ ret_a = before.user_a
                 /\ ret_b = before.user_b)
    /\ [][users_changed(offer, offer')
              => /\ offer.status = PENDING
                 /\ offer'.status = ACCEPTED
                 /\ call' = "accept"]_vars

\* A second accept() on an Offer whose first accept() moved items.
C11_Witness ==
    /\ origin.status = PENDING
    /\ transfers = 1
    /\ call = "accept"
    /\ before.status = ACCEPTED

\* C12: an Offer constructed PENDING whose ownership check fails is never
\* ACCEPTED: every accept() returns it unchanged, its users never change,
\* and it leaves PENDING only by a decline() that makes it DECLINED.
C12_UnownedNeverAccepted ==
    /\ []((origin.status = PENDING /\ ~ Owned(origin))
              => /\ offer.status # ACCEPTED
                 /\ offer.user_a = origin.user_a
                 /\ offer.user_b = origin.user_b
                 /\ ~ Owned(offer)
                 /\ (call = "accept"
                        => /\ offer = before
                           /\ ret_a = origin.user_a
                           /\ ret_b = origin.user_b))
    /\ [][(origin.status = PENDING /\ ~ Owned(origin)
                /\ offer'.status # offer.status)
              => /\ call' = "decline"
                 /\ offer.status = PENDING
                 /\ offer'.status = DECLINED]_vars

\* accept() was called on a PENDING Offer that fails only one of the two
\* ownership checks, and it is still PENDING.
C12_Witness ==
    /\ origin.status = PENDING
    /\ origin.offered_items \subseteq origin.user_a.items
    /\ ~ (origin.requested_items \subseteq origin.user_b.items)
    /\ call = "accept"
    /\ offer.status = PENDING

\* The Offer now held was constructed PENDING and has become ACCEPTED.
AcceptedFromPending == origin.status = PENDING /\ offer.status = ACCEPTED

\* C13: an ACCEPTED Offer reached from an Offer constructed PENDING has
\* requested_items within user_a.items, offered_items within user_b.items,
\* nothing of offered - requested in user_a.items and nothing of
\* requested - offered in user_b.items.
C13_ExchangeReflected ==
    AcceptedFromPending
        => /\ offer.requested_items \subseteq offer.user_a.items
           /\ offer.offered_items \subseteq offer.user_b.items
           /\ (offer.offered_items \ offer.requested_items)
                  \cap offer.user_a.items = {}
           /\ (offer.requested_items \ offer.offered_items)
                  \cap offer.user_b.items = {}

\* An ACCEPTED Offer, after a later call, whose two item sets overlap
\* without being equal and whose users both held the offered-only Item.
C13_Witness ==
    /\ AcceptedFromPending
    /\ before.status = ACCEPTED
    /\ offer.offered_items \cap offer.requested_items # {}
    /\ offer.offered_items \ offer.requested_items # {}
    /\ (offer.offered_items \ offer.requested_items)
            \cap origin.user_b.items # {}

\* The last call was an accept() that performed the trade.
SuccessfulAccept ==
    call = "accept" /\ before.status = PENDING /\ offer.status = ACCEPTED

\* C14: a successful accept() keeps the union of the two users' item sets;
\* if the two sets were disjoint before, they are disjoint after and their
\* sizes add up to the same number.
C14_ItemsConserved ==
    SuccessfulAccept
        => /\ ret_a.items \cup ret_b.items
                = before.user_a.items \cup before.user_b.items
           /\ (before.user_a.items \cap before.user_b.items = {})
                => /\ ret_a.items \cap ret_b.items = {}
                   /\ Cardinality(ret_a.items) + Cardinality(ret_b.items)
                        = Cardinality(before.user_a.items)
                            + Cardinality(before.user_b.items)

\* A successful accept() between users with disjoint item sets, moving
\* items both ways in unequal numbers.
C14_Witness ==
    /\ SuccessfulAccept
    /\ before.user_a.items \cap before.user_b.items = {}
    /\ before.offered_items # {}
    /\ before.requested_items # {}
    /\ Cardinality(before.offered_items) # Cardinality(before.requested_items)

\* The last call was the accept() of the reverse Offer, made right after
\* its construction.
ReverseAccepted ==
    forward # <<>> /\ call = "accept" /\ before = origin

\* C15: when user_a.items and user_b.items are disjoint, accepting the
\* reverse Offer of a successful accept() is accepted too and gives both
\* users their original item sets back.
C15_ReverseRestores ==
    (/\ ReverseAccepted
     /\ forward[1].user_a.items \cap forward[1].user_b.items = {})
        => /\ offer.status = ACCEPTED
           /\ ret_a.items = forward[1].user_a.items
           /\ ret_b.items = forward[1].user_b.items

\* The reverse of a two-way trade between users with disjoint item sets
\* was accepted.
C15_Witness ==
    /\ ReverseAccepted
    /\ forward[1].user_a.items \cap forward[1].user_b.items = {}
    /\ forward[1].offered_items # {}
    /\ forward[1].requested_items # {}
    /\ offer.status = ACCEPTED

===========================================================================
